---- MODULE Spec2Model ----
(***************************************************************************)
(* Model of src/cash_flow_engine.py: the indicator registry (Indicator,   *)
(* FinancialCalculator._initialize_registry, resolve_name) and the value  *)
(* store with its four formulas (set_value, get_value, the calculate     *)
(* methods).                                                               *)
(* Python strings are modelled as sequences of Unicode code points, so    *)
(* that str.lower() and str.strip() are computed character by character.  *)
(* ASCII literals are written Str("...") and converted by ord; the        *)
(* Cyrillic display names of the catalog are written as code points.      *)
(* Python floats are modelled by integers: every value of the model is a  *)
(* small integer, which float() represents exactly and on which float     *)
(* addition and subtraction are exact.                                     *)
(***************************************************************************)
EXTENDS Integers, Sequences, FiniteSets, TLC

\* ------------------------------------------------------------------------
\* Bounds of the model
\* ------------------------------------------------------------------------
\* values passed to set_value are drawn from 1..MaxValue
MaxValue == 2
\* at most MaxPad whitespace characters are put on each side of a spelling
MaxPad == 1

Values == 1..MaxValue

\* ------------------------------------------------------------------------
\* Strings
\* ------------------------------------------------------------------------
AsciiUpper == "ABCDEFGHIJKLMNOPQRSTUVWXYZ"
AsciiLower == "abcdefghijklmnopqrstuvwxyz"
Pos(t, c) == CHOOSE i \in 1..Len(t) : SubSeq(t, i, i) = c
Has(t, c) == \E i \in 1..Len(t) : SubSeq(t, i, i) = c

\* code point of a one-character ASCII literal
ord(c) ==
  CASE Has(AsciiUpper, c) -> 64 + Pos(AsciiUpper, c)
    [] Has(AsciiLower, c) -> 96 + Pos(AsciiLower, c)
    [] c = " " -> 32 [] c = "&" -> 38 [] c = "(" -> 40 [] c = ")" -> 41
    [] c = "," -> 44 [] c = "-" -> 45 [] c = "/" -> 47 [] c = "_" -> 95

\* a Python str literal, as its sequence of code points
Str(s) == [i \in 1..Len(s) |-> ord(SubSeq(s, i, i))]

\* Python's None (no str is equal to it: code points are not negative)
None == <<-1>>

\* truth value of an Optional[str]: None and "" are both falsy
truthy(x) == x # None /\ x # <<>>

\* str.lower() on one code point, for Basic Latin and the Cyrillic block
\* (A-Z -> a-z, U+0410..U+042F -> U+0430..U+044F, U+0400..U+040F ->
\* U+0450..U+045F); every other code point of the catalog is caseless
lower_char(c) ==
  IF c \in 65..90 THEN c + 32
  ELSE IF c \in 1040..1071 THEN c + 32
  ELSE IF c \in 1024..1039 THEN c + 80
  ELSE c

\* str.upper() on one code point, same alphabet
upper_char(c) ==
  IF c \in 97..122 THEN c - 32
  ELSE IF c \in 1072..1103 THEN c - 32
  ELSE IF c \in 1104..1119 THEN c - 80
  ELSE c

\* lower() that only knows the ASCII letters
lower_ascii_only(s) ==
  [i \in 1..Len(s) |-> IF s[i] \in 65..90 THEN s[i] + 32 ELSE s[i]]

\* str.lower()
lower(s) == [i \in 1..Len(s) |-> lower_char(s[i])]

\* str.swapcase()
swapcase(s) ==
  [i \in 1..Len(s) |-> IF lower_char(s[i]) # s[i] THEN lower_char(s[i])
                       ELSE upper_char(s[i])]

\* the code points str.strip() removes (str.isspace, up to U+00A0)
Whitespace == {9, 10, 11, 12, 13, 28, 29, 30, 31, 32, 133, 160}

\* str.lstrip(): drop leading whitespace
RECURSIVE lstrip(_)
lstrip(s) ==
  IF s # <<>> /\ Head(s) \in Whitespace THEN lstrip(Tail(s)) ELSE s

\* str.rstrip(): drop trailing whitespace
RECURSIVE rstrip(_)
rstrip(s) ==
  IF s # <<>> /\ s[Len(s)] \in Whitespace
  THEN rstrip(SubSeq(s, 1, Len(s) - 1))
  ELSE s

\* str.strip(): drop leading and trailing whitespace
strip(s) == rstrip(lstrip(s))

\* dict assignment m[k] = v
Put(m, k, v) == [x \in DOMAIN m \cup {k} |-> IF x = k THEN v ELSE m[x]]

\* the empty dict
EmptyDict == [x \in {} |-> 0]

\* ------------------------------------------------------------------------
\* The catalog: the arguments of the reg(...) calls of
\* _initialize_registry, in source order
\* ------------------------------------------------------------------------
Catalog ==
  <<
     \* line 39: reg("OperationalCF", "Операционный денежный поток", ...)
     [id |-> Str("OperationalCF"),
      display_name |->
        <<1054, 1087, 1077, 1088, 1072, 1094, 1080, 1086, 1085, 1085, 1099, 1081,
          32, 1076, 1077, 1085, 1077, 1078, 1085, 1099, 1081, 32, 1087, 1086,
          1090, 1086, 1082>>,
      aliases |-> <<Str("delOperationalCF"),
                    Str("OCF"),
                    Str("delOCF"),
                    Str("Operational Cash Flow")>>],
     \* line 42: reg("InvestingCF", "Инвестиционный денежный поток", ...)
     [id |-> Str("InvestingCF"),
      display_name |->
        <<1048, 1085, 1074, 1077, 1089, 1090, 1080, 1094, 1080, 1086, 1085, 1085,
          1099, 1081, 32, 1076, 1077, 1085, 1077, 1078, 1085, 1099, 1081, 32,
          1087, 1086, 1090, 1086, 1082>>,
      aliases |-> <<Str("delInvestingCF"),
                    Str("ICF"),
                    Str("delICF"),
                    Str("Investing Cash Flow")>>],
     \* line 45: reg("FinancingCF", "Финансовый денежный поток", ...)
     [id |-> Str("FinancingCF"),
      display_name |->
        <<1060, 1080, 1085, 1072, 1085, 1089, 1086, 1074, 1099, 1081, 32, 1076,
          1077, 1085, 1077, 1078, 1085, 1099, 1081, 32, 1087, 1086, 1090, 1086,
          1082>>,
      aliases |-> <<Str("delFinancingCF"),
                    Str("FCF"),
                    Str("delFCF"),
                    Str("Financing Cash Flow")>>],
     \* line 48: reg("Cash", "Денежные средства", ...)
     [id |-> Str("Cash"),
      display_name |->
        <<1044, 1077, 1085, 1077, 1078, 1085, 1099, 1077, 32, 1089, 1088, 1077,
          1076, 1089, 1090, 1074, 1072>>,
      aliases |-> <<Str("delCash"),
                    Str("C"),
                    Str("delC"),
                    Str("Cash")>>],
     \* line 52: reg("assets", "Активы", ...)
     [id |-> Str("assets"),
      display_name |->
        <<1040, 1082, 1090, 1080, 1074, 1099>>,
      aliases |-> <<Str("delAssets"),
                    Str("A"),
                    Str("delA"),
                    Str("Assets")>>],
     \* line 55: reg("liabilities", "Обязательства", ...)
     [id |-> Str("liabilities"),
      display_name |->
        <<1054, 1073, 1103, 1079, 1072, 1090, 1077, 1083, 1100, 1089, 1090, 1074,
          1072>>,
      aliases |-> <<Str("delLiabilities"),
                    Str("L"),
                    Str("delL"),
                    Str("Liabilities")>>],
     \* line 58: reg("equity", "Собственный капитал", ...)
     [id |-> Str("equity"),
      display_name |->
        <<1057, 1086, 1073, 1089, 1090, 1074, 1077, 1085, 1085, 1099, 1081, 32,
          1082, 1072, 1087, 1080, 1090, 1072, 1083>>,
      aliases |-> <<Str("delEquity"),
                    Str("E"),
                    Str("delE"),
                    Str("Equity")>>],
     \* line 61: reg("retained_earnings", "Накопленная прибыль", ...)
     [id |-> Str("retained_earnings"),
      display_name |->
        <<1053, 1072, 1082, 1086, 1087, 1083, 1077, 1085, 1085, 1072, 1103, 32,
          1087, 1088, 1080, 1073, 1099, 1083, 1100>>,
      aliases |-> <<Str("delRetainedEarnings"),
                    Str("RE"),
                    Str("delRE"),
                    Str("Retained Earnings")>>],
     \* line 64: reg("current_assets", "Оборотные активы", ...)
     [id |-> Str("current_assets"),
      display_name |->
        <<1054, 1073, 1086, 1088, 1086, 1090, 1085, 1099, 1077, 32, 1072, 1082,
          1090, 1080, 1074, 1099>>,
      aliases |-> <<Str("delCurrentAssets"),
                    Str("CA"),
                    Str("delCA"),
                    Str("Current Assets")>>],
     \* line 67: reg("non_current_assets", "Внеоборотные активы", ...)
     [id |-> Str("non_current_assets"),
      display_name |->
        <<1042, 1085, 1077, 1086, 1073, 1086, 1088, 1086, 1090, 1085, 1099, 1077,
          32, 1072, 1082, 1090, 1080, 1074, 1099>>,
      aliases |-> <<Str("delNonCurrentAssets"),
                    Str("NCA"),
                    Str("delNCA"),
                    Str("Non-Current Assets")>>],
     \* line 71: reg("contributed_capital", "Акционерный капитал", ...)
     [id |-> Str("contributed_capital"),
      display_name |->
        <<1040, 1082, 1094, 1080, 1086, 1085, 1077, 1088, 1085, 1099, 1081, 32,
          1082, 1072, 1087, 1080, 1090, 1072, 1083>>,
      aliases |-> <<Str("delContributedCapital"),
                    Str("CC"),
                    Str("delCC"),
                    Str("Contributed Capital")>>],
     \* line 74: reg("other_equity", "Прочий собственный капитал", ...)
     [id |-> Str("other_equity"),
      display_name |->
        <<1055, 1088, 1086, 1095, 1080, 1081, 32, 1089, 1086, 1073, 1089, 1090,
          1074, 1077, 1085, 1085, 1099, 1081, 32, 1082, 1072, 1087, 1080, 1090,
          1072, 1083>>,
      aliases |-> <<Str("delOtherEquity"),
                    Str("OE"),
                    Str("delOE"),
                    Str("Other Equity"),
                    Str("other_equity")>>],
     \* line 77: reg("non-current liabilities", "Долгосрочные обязательства", ...)
     [id |-> Str("non-current liabilities"),
      display_name |->
        <<1044, 1086, 1083, 1075, 1086, 1089, 1088, 1086, 1095, 1085, 1099, 1077,
          32, 1086, 1073, 1103, 1079, 1072, 1090, 1077, 1083, 1100, 1089, 1090,
          1074, 1072>>,
      aliases |-> <<Str("delNonCurrentLiabilities"),
                    Str("NCL"),
                    Str("delNCL"),
                    Str("Non-Current Liabilities"),
                    Str("non-current_liabilities")>>],
     \* line 80: reg("net_income", "Чистая прибыль", ...)
     [id |-> Str("net_income"),
      display_name |->
        <<1063, 1080, 1089, 1090, 1072, 1103, 32, 1087, 1088, 1080, 1073, 1099,
          1083, 1100>>,
      aliases |-> <<Str("delNetIncome"),
                    Str("NI"),
                    Str("Net Income"),
                    Str("net income")>>],
     \* line 83: reg("dividends", "Дивиденды", ...)
     [id |-> Str("dividends"),
      display_name |->
        <<1044, 1080, 1074, 1080, 1076, 1077, 1085, 1076, 1099>>,
      aliases |-> <<Str("delDividends"),
                    Str("Div"),
                    Str("delDiv"),
                    Str("Dividends")>>],
     \* line 86: reg("net_accounts_receivable", "Дебиторская задолженность (за вычетом резерва по сомнительным долгам и прочих резервов)", ...)
     [id |-> Str("net_accounts_receivable"),
      display_name |->
        <<1044, 1077, 1073, 1080, 1090, 1086, 1088, 1089, 1082, 1072, 1103, 32,
          1079, 1072, 1076, 1086, 1083, 1078, 1077, 1085, 1085, 1086, 1089, 1090,
          1100, 32, 40, 1079, 1072, 32, 1074, 1099, 1095, 1077, 1090, 1086,
          1084, 32, 1088, 1077, 1079, 1077, 1088, 1074, 1072, 32, 1087, 1086,
          32, 1089, 1086, 1084, 1085, 1080, 1090, 1077, 1083, 1100, 1085, 1099,
          1084, 32, 1076, 1086, 1083, 1075, 1072, 1084, 32, 1080, 32, 1087,
          1088, 1086, 1095, 1080, 1093, 32, 1088, 1077, 1079, 1077, 1088, 1074,
          1086, 1074, 41>>,
      aliases |-> <<Str("delNetAccountsReceivable"),
                    Str("NetA/R"),
                    Str("delNetA/R"),
                    Str("Net Accounts Receivable"),
                    Str("net accounts receivable")>>],
     \* line 89: reg("inventory", "Товарно-материальные запасы", ...)
     [id |-> Str("inventory"),
      display_name |->
        <<1058, 1086, 1074, 1072, 1088, 1085, 1086, 45, 1084, 1072, 1090, 1077,
          1088, 1080, 1072, 1083, 1100, 1085, 1099, 1077, 32, 1079, 1072, 1087,
          1072, 1089, 1099>>,
      aliases |-> <<Str("delInventory"),
                    Str("Inv"),
                    Str("delInv"),
                    Str("Inventory")>>],
     \* line 92: reg("other_current_assets", "Прочие оборотные активы", ...)
     [id |-> Str("other_current_assets"),
      display_name |->
        <<1055, 1088, 1086, 1095, 1080, 1077, 32, 1086, 1073, 1086, 1088, 1086,
          1090, 1085, 1099, 1077, 32, 1072, 1082, 1090, 1080, 1074, 1099>>,
      aliases |-> <<Str("delOtherCurrentAssets"),
                    Str("OCA"),
                    Str("delOCA"),
                    Str("Other Current Assets")>>],
     \* line 95: reg("net_property, plant & equipment", "Основные средства (за вычетом накопленной амортизации)", ...)
     [id |-> Str("net_property, plant & equipment"),
      display_name |->
        <<1054, 1089, 1085, 1086, 1074, 1085, 1099, 1077, 32, 1089, 1088, 1077,
          1076, 1089, 1090, 1074, 1072, 32, 40, 1079, 1072, 32, 1074, 1099,
          1095, 1077, 1090, 1086, 1084, 32, 1085, 1072, 1082, 1086, 1087, 1083,
          1077, 1085, 1085, 1086, 1081, 32, 1072, 1084, 1086, 1088, 1090, 1080,
          1079, 1072, 1094, 1080, 1080, 41>>,
      aliases |-> <<Str("delNetPropertyPlantEquipment"),
                    Str("NetPPE"),
                    Str("delNetPPE"),
                    Str("Net Property Plant Equipment"),
                    Str("net property plant equipment")>>],
     \* line 98: reg("other_non_current_assets", "Прочие внеборотные активы", ...)
     [id |-> Str("other_non_current_assets"),
      display_name |->
        <<1055, 1088, 1086, 1095, 1080, 1077, 32, 1074, 1085, 1077, 1073, 1086,
          1088, 1086, 1090, 1085, 1099, 1077, 32, 1072, 1082, 1090, 1080, 1074,
          1099>>,
      aliases |-> <<Str("delOtherNonCurrentAssets"),
                    Str("ONCA"),
                    Str("delONCA"),
                    Str("Other Non-Current Assets")>>],
     \* line 101: reg("depreciation_expence", "Амортизация", ...)
     [id |-> Str("depreciation_expence"),
      display_name |->
        <<1040, 1084, 1086, 1088, 1090, 1080, 1079, 1072, 1094, 1080, 1103>>,
      aliases |-> <<Str("delDepreciationExpence"),
                    Str("DE"),
                    Str("delDE"),
                    Str("DepExp"),
                    Str("Depreciation Expence"),
                    Str("depreciation_expence")>>],
     \* line 104: reg("gain_loss_on_disposal_of_PPE", "Прибыль (убыток) от реализации объектов основных средств", ...)
     [id |-> Str("gain_loss_on_disposal_of_PPE"),
      display_name |->
        <<1055, 1088, 1080, 1073, 1099, 1083, 1100, 32, 40, 1091, 1073, 1099,
          1090, 1086, 1082, 41, 32, 1086, 1090, 32, 1088, 1077, 1072, 1083,
          1080, 1079, 1072, 1094, 1080, 1080, 32, 1086, 1073, 1098, 1077, 1082,
          1090, 1086, 1074, 32, 1086, 1089, 1085, 1086, 1074, 1085, 1099, 1093,
          32, 1089, 1088, 1077, 1076, 1089, 1090, 1074>>,
      aliases |-> <<Str("delGainLossOnDisposalOfPPE"),
                    Str("GLODOPPE"),
                    Str("Gain(Loss)"),
                    Str("delGain(Loss)"),
                    Str("Gain Loss On Disposal Of PPE"),
                    Str("gain loss on disposal of ppe")>>]
  >>

\* Indicator.__init__: the aliases are lowercased and stripped
Indicator(id, display_name, aliases) ==
  [id |-> id,
   display_name |-> display_name,
   aliases |-> [i \in 1..Len(aliases) |-> strip(lower(aliases[i]))]]

\* the loop "for alias in ind.aliases: self.alias_map[alias] = id"
RECURSIVE map_aliases(_, _, _)
map_aliases(am, aliases, id) ==
  IF aliases = <<>> THEN am
  ELSE map_aliases(Put(am, Head(aliases), id), Tail(aliases), id)

\* reg(id, name, aliases) applied to the pair st = (registry, alias_map):
\* id and display name are lowercased (not stripped), later entries
\* overwrite earlier ones
reg(st, id, name, aliases) ==
  LET ind == Indicator(id, name, aliases)
      m1  == Put(st.alias_map, lower(id), id)
      m2  == Put(m1, lower(name), id)
  IN  [registry  |-> Put(st.registry, id, ind),
       alias_map |-> map_aliases(m2, ind.aliases, id)]

RECURSIVE reg_all(_, _)
reg_all(st, cat) ==
  IF cat = <<>> THEN st
  ELSE reg_all(reg(st, Head(cat).id, Head(cat).display_name, Head(cat).aliases),
               Tail(cat))

\* _initialize_registry on the empty registry and alias_map of __init__
initialize_registry ==
  reg_all([registry |-> EmptyDict, alias_map |-> EmptyDict], Catalog)

\* ------------------------------------------------------------------------
\* State
\* ------------------------------------------------------------------------
VARIABLES
  data,       \* self.data: canonical id (or reserved key) -> value
  registry,   \* self.registry: canonical id -> Indicator
  alias_map,  \* self.alias_map: normalised spelling -> canonical id
  lastCall,   \* the most recent call of the public API and its outcome
  returned,   \* history: calculate_* method -> the value it last returned
  passed,     \* history: name -> the value last passed to set_value
  names       \* the spellings the caller uses in this run

vars == <<data, registry, alias_map, lastCall, returned, passed, names>>

Call(op, name, value, ret, id, err) ==
  [op |-> op, name |-> name, value |-> value, ret |-> ret, id |-> id,
   err |-> err]

\* FinancialCalculator.__init__
Constructed ==
  /\ data = EmptyDict
  /\ registry = initialize_registry.registry
  /\ alias_map = initialize_registry.alias_map
  /\ lastCall = Call("init", <<>>, 0, 0, None, "none")
  /\ returned = EmptyDict
  /\ passed = EmptyDict

\* ------------------------------------------------------------------------
\* The string literals of the methods (evaluated once)
\* ------------------------------------------------------------------------
s_net_income == Str("net_income")
s_depreciation_expence == Str("depreciation_expence")
s_net_accounts_receivable == Str("net_accounts_receivable")
s_inventory == Str("inventory")
s_other_current_assets == Str("other_current_assets")
s_current_liabilities == Str("current_liabilities")
s_gain_loss_on_disposal_of_PPE == Str("gain_loss_on_disposal_of_PPE")
s_net_property_plant_equipment == Str("net_property_plant_equipment")
s_other_non_current_assets == Str("other_non_current_assets")
s_other_equity == Str("other_equity")
s_non_current_liabilities == Str("non_current_liabilities")
s_contributed_capital == Str("contributed_capital")
s_dividends == Str("dividends")
s_operation_cf == Str("operation_cf")
s_investing_cf == Str("investing_cf")
s_financing_cf == Str("financing_cf")
s_cash == Str("cash")
\* the canonical id of the indicator registered at line 48
s_Cash == Str("Cash")

\* ------------------------------------------------------------------------
\* Methods
\* ------------------------------------------------------------------------
\* dict.get(k): None when k is missing
dict_get(m, k) == IF k \in DOMAIN m THEN m[k] ELSE None

\* resolve_name(name) = self.alias_map.get(name.lower().strip())
resolve_name(name) == dict_get(alias_map, strip(lower(name)))

\* float(value): the values of the model are integers that a float holds
\* exactly
float(value) == value

\* set_value that stores under the spelling it was given
set_value_raw_key(name, value) ==
  LET canonical_id == resolve_name(name)
  IN  IF ~truthy(canonical_id)
      THEN [data |-> data, err |-> "ValueError"]
      ELSE [data |-> Put(data, name, float(value)), err |-> "none"]

\* set_value that registers an unknown name instead of raising
set_value_no_raise(name, value) ==
  LET canonical_id == resolve_name(name)
  IN  IF ~truthy(canonical_id)
      THEN [data |-> Put(data, strip(lower(name)), float(value)),
            err |-> "none"]
      ELSE [data |-> Put(data, canonical_id, float(value)), err |-> "none"]

\* set_value that keeps a value already stored
set_value_keep_first(name, value) ==
  LET canonical_id == resolve_name(name)
  IN  IF ~truthy(canonical_id)
      THEN [data |-> data, err |-> "ValueError"]
      ELSE IF canonical_id \in DOMAIN data
      THEN [data |-> data, err |-> "none"]
      ELSE [data |-> Put(data, canonical_id, float(value)), err |-> "none"]

\* set_value(name, value): the new store and the exception raised, if any.
\* The store is written before the print that reads self.registry.
set_value(name, value) ==
  LET canonical_id == resolve_name(name)
  IN  IF ~truthy(canonical_id)
      THEN [data |-> data, err |-> "ValueError"]
      ELSE LET d == Put(data, canonical_id, float(value))
           IN  IF canonical_id \in DOMAIN registry
               THEN [data |-> d, err |-> "none"]
               ELSE [data |-> d, err |-> "KeyError"]

\* get_value(name): the value returned; it raises nothing
get_value(name) ==
  LET canonical_id == resolve_name(name)
  IN  IF ~truthy(canonical_id)
      THEN [ret |-> 0, err |-> "none"]
      ELSE [ret |-> IF canonical_id \in DOMAIN data THEN data[canonical_id]
                    ELSE 0,
            err |-> "none"]

\* the first exception among a sequence of get_value results
RECURSIVE first_err(_)
first_err(rs) ==
  IF rs = <<>> THEN "none"
  ELSE IF Head(rs).err # "none" THEN Head(rs).err
  ELSE first_err(Tail(rs))

\* outcome of a calculate_* method: the reads rs, the total, the key
calc_result(rs, total, key) ==
  IF first_err(rs) # "none"
  THEN [data |-> data, ret |-> 0, err |-> first_err(rs)]
  ELSE [data |-> Put(data, key, total), ret |-> total, err |-> "none"]

calculate_operational_cf ==
  LET ni        == get_value(s_net_income)
      dep_exp   == get_value(s_depreciation_expence)
      net_ar    == get_value(s_net_accounts_receivable)
      inv       == get_value(s_inventory)
      oca       == get_value(s_other_current_assets)
      cl        == get_value(s_current_liabilities)
      gain_loss == get_value(s_gain_loss_on_disposal_of_PPE)
      total_operation_cf ==
        ni.ret + dep_exp.ret + net_ar.ret - inv.ret - oca.ret + cl.ret
          - gain_loss.ret
  IN  calc_result(<<ni, dep_exp, net_ar, inv, oca, cl, gain_loss>>,
                  total_operation_cf, s_operation_cf)

calculate_investing_cf ==
  LET nppe      == get_value(s_net_property_plant_equipment)
      gain_loss == get_value(s_gain_loss_on_disposal_of_PPE)
      dep_exp   == get_value(s_depreciation_expence)
      onca      == get_value(s_other_non_current_assets)
      oe        == get_value(s_other_equity)
      total_investing_cf ==
        (0 - nppe.ret) + gain_loss.ret + dep_exp.ret - onca.ret + oe.ret
  IN  calc_result(<<nppe, gain_loss, dep_exp, onca, oe>>,
                  total_investing_cf, s_investing_cf)

calculate_financing_cf ==
  LET ncl == get_value(s_non_current_liabilities)
      cc  == get_value(s_contributed_capital)
      div == get_value(s_dividends)
      total_financing_cf == ncl.ret + cc.ret - div.ret
  IN  calc_result(<<ncl, cc, div>>, total_financing_cf, s_financing_cf)

\* calculate_cash that stores its total under the canonical id Cash
calculate_cash_canonical_key ==
  LET operation_cf == get_value(s_operation_cf)
      investing_cf == get_value(s_investing_cf)
      financing_cf == get_value(s_financing_cf)
      total_cash   == operation_cf.ret + investing_cf.ret + financing_cf.ret
  IN  calc_result(<<operation_cf, investing_cf, financing_cf>>,
                  total_cash, s_Cash)

\* calculate_cash that evaluates the three component formulas itself
calculate_cash_recomputing ==
  LET total_cash == calculate_operational_cf.ret + calculate_investing_cf.ret
                      + calculate_financing_cf.ret
  IN  calc_result(<<>>, total_cash, s_cash)

calculate_cash ==
  LET operation_cf == get_value(s_operation_cf)
      investing_cf == get_value(s_investing_cf)
      financing_cf == get_value(s_financing_cf)
      total_cash   == operation_cf.ret + investing_cf.ret + financing_cf.ret
  IN  calc_result(<<operation_cf, investing_cf, financing_cf>>,
                  total_cash, s_cash)

\* ------------------------------------------------------------------------
\* Calls of the public API
\* ------------------------------------------------------------------------
ResolveName(name) ==
  /\ lastCall' = Call("resolve_name", name, 0, 0, resolve_name(name), "none")
  /\ UNCHANGED <<data, registry, alias_map, returned, passed, names>>

\* the effect of a set_value call on the program's state
SetValueCall(name, value) ==
  LET r == set_value(name, value)
  IN  /\ data' = r.data
      /\ lastCall' = Call("set_value", name, value, 0, None, r.err)
      /\ UNCHANGED <<registry, alias_map, returned, names>>

SetValue(name, value) ==
  /\ SetValueCall(name, value)
  /\ UNCHANGED passed

\* set_value called by a caller that notes what it passed under each name
SetValueNoted(name, value) ==
  /\ SetValueCall(name, value)
  /\ passed' = Put(passed, name, value)

GetValue(name) ==
  LET r == get_value(name)
  IN  /\ lastCall' = Call("get_value", name, 0, r.ret, None, r.err)
      /\ UNCHANGED <<data, registry, alias_map, returned, passed, names>>

\* a call of the calculate_* method named op, whose outcome is r
Calculate(op, r) ==
  /\ data' = r.data
  /\ lastCall' = Call(op, <<>>, 0, r.ret, None, r.err)
  /\ returned' = IF r.err = "none" THEN Put(returned, op, r.ret) ELSE returned
  /\ UNCHANGED <<registry, alias_map, passed, names>>

CalculateOperationalCF ==
  Calculate("calculate_operational_cf", calculate_operational_cf)

CalculateInvestingCF ==
  Calculate("calculate_investing_cf", calculate_investing_cf)

CalculateFinancingCF ==
  Calculate("calculate_financing_cf", calculate_financing_cf)

CalculateCash == Calculate("calculate_cash", calculate_cash)

\* ------------------------------------------------------------------------
\* Vocabulary of the properties
\* ------------------------------------------------------------------------
Indicators == 1..Len(Catalog)

\* the names the source gives the indicator Catalog[i]: its id, its display
\* name and its aliases, as written in the reg(...) call
AcceptedNamesOf ==
  [i \in Indicators |->
     {Catalog[i].id, Catalog[i].display_name}
       \cup {Catalog[i].aliases[j] : j \in 1..Len(Catalog[i].aliases)}]

\* the display name registered for the indicator id
DisplayName(id) ==
  LET i == CHOOSE j \in 1..Len(Catalog) : Catalog[j].id = id
  IN  Catalog[i].display_name

\* x and y are the same string up to letter case
SameLetters(x, y) ==
  /\ Len(x) = Len(y)
  /\ \A k \in 1..Len(x) :
        \/ x[k] = y[k]
        \/ upper_char(x[k]) = y[k]
        \/ x[k] = upper_char(y[k])

\* name is the string a in some letter case, between at most MaxPad
\* whitespace characters on each side
IsSpellingOf(name, a) ==
  LET extra == Len(name) - Len(a)
  IN  /\ extra \in 0..(2 * MaxPad)
      /\ \E p \in 0..MaxPad :
           /\ extra - p \in 0..MaxPad
           /\ \A k \in 1..p : name[k] \in Whitespace
           /\ \A k \in (p + Len(a) + 1)..Len(name) : name[k] \in Whitespace
           /\ SameLetters(SubSeq(name, p + 1, p + Len(a)), a)

\* name is a spelling of some accepted name of the indicator Catalog[i]
Names(name, i) == \E a \in AcceptedNamesOf[i] : IsSpellingOf(name, a)

\* name is a spelling of no accepted name of any indicator
Unknown(name) == \A i \in Indicators : ~Names(name, i)

\* the four keys under which the calculate methods store their totals
ReservedKeys == {s_operation_cf, s_investing_cf, s_financing_cf, s_cash}

ComponentOps ==
  {"calculate_operational_cf", "calculate_investing_cf",
   "calculate_financing_cf"}

\* the value the store holds for key k, 0 when it holds none
Stored(k) == IF k \in DOMAIN data THEN data[k] ELSE 0

\* the entry under key k is the same before and after the step
SameEntry(k) ==
  /\ (k \in DOMAIN data) = (k \in DOMAIN data')
  /\ k \in DOMAIN data => data'[k] = data[k]

\* ------------------------------------------------------------------------
\* Spec: any sequence of set_value, get_value and calculate calls, with
\* names drawn from InputNames
\* ------------------------------------------------------------------------
\* spellings the caller uses: an alias of net_income in mixed case with
\* surrounding blanks, its canonical id, a spelling of the indicator Cash
\* that is also a reserved key, a reserved key that is not registered and
\* a name that is not registered
InputNames ==
  {Str(" nI "), s_net_income, s_cash, s_operation_cf, Str("not_a_real_name")}

Init ==
  /\ Constructed
  /\ names = InputNames

Next ==
  \/ \E name \in names, value \in Values : SetValue(name, value)
  \/ \E name \in names : GetValue(name)
  \/ CalculateOperationalCF
  \/ CalculateInvestingCF
  \/ CalculateFinancingCF
  \/ CalculateCash

Spec == Init /\ [][Next]_vars

\* ------------------------------------------------------------------------
\* SpecResolve: resolve_name applied to one spelling of an accepted name
\* ------------------------------------------------------------------------
PadChars == {32, 9}

\* the whitespace strings of at most MaxPad characters
Pads == UNION {[1..n -> PadChars] : n \in 0..MaxPad}

\* a in alternating letter case, starting in lower case
alternating(a) ==
  [k \in 1..Len(a) |-> IF k % 2 = 0 THEN upper_char(a[k])
                        ELSE lower_char(a[k])]

\* letter cases of the string a
CaseForms(a) ==
  {a,
   [k \in 1..Len(a) |-> upper_char(a[k])],
   [k \in 1..Len(a) |-> lower_char(a[k])],
   swapcase(a),
   alternating(a)}

InitResolve ==
  /\ Constructed
  /\ \E i \in Indicators :
       \E a \in AcceptedNamesOf[i] :
         \E form \in CaseForms(a), pre \in Pads, post \in Pads :
           names = {pre \o form \o post}

NextResolve == \E name \in names : ResolveName(name)

SpecResolve == InitResolve /\ [][NextResolve]_vars

\* ------------------------------------------------------------------------
\* SpecRoundTrip: writes and reads through the accepted names of one
\* indicator
\* ------------------------------------------------------------------------
InitRoundTrip ==
  /\ Constructed
  /\ \E i \in Indicators : names = AcceptedNamesOf[i]

NextRoundTrip ==
  \/ \E name \in names, value \in Values : SetValue(name, value)
  \/ \E name \in names : GetValue(name)

SpecRoundTrip == InitRoundTrip /\ [][NextRoundTrip]_vars

\* ------------------------------------------------------------------------
\* SpecOperational: the caller passes a value to set_value under each of
\* the seven input names of the operating formula, once each and in any
\* order, then calls calculate_operational_cf
\* ------------------------------------------------------------------------
s_depreciation_expense == Str("depreciation_expense")

OperationalNames ==
  {s_net_income, s_depreciation_expense, s_net_accounts_receivable,
   s_inventory, s_other_current_assets, s_current_liabilities,
   s_gain_loss_on_disposal_of_PPE}

InitOperational ==
  /\ Constructed
  /\ names = OperationalNames

NextOperational ==
  \/ \E name \in names \ DOMAIN passed, value \in Values :
       SetValueNoted(name, value)
  \/ (DOMAIN passed = names /\ CalculateOperationalCF)

SpecOperational == InitOperational /\ [][NextOperational]_vars

\* ------------------------------------------------------------------------
\* SpecInvesting: values are stored through accepted names of inputs of
\* the investing formula, and calculate_investing_cf is called
\* ------------------------------------------------------------------------
\* the canonical ids registered at lines 95 and 77
id_net_property_plant_equipment == Str("net_property, plant & equipment")
id_non_current_liabilities == Str("non-current liabilities")

InvestingNames ==
  {Str("NetPPE"), s_gain_loss_on_disposal_of_PPE, Str("Other Equity")}

InitInvesting ==
  /\ Constructed
  /\ names = InvestingNames

NextInvesting ==
  \/ \E name \in names, value \in Values : SetValue(name, value)
  \/ CalculateInvestingCF

SpecInvesting == InitInvesting /\ [][NextInvesting]_vars

\* ------------------------------------------------------------------------
\* SpecFinancing: values are stored through accepted names of the inputs
\* of the financing formula, and calculate_financing_cf is called
\* ------------------------------------------------------------------------
FinancingNames ==
  {Str("NCL"), s_contributed_capital, DisplayName(s_dividends)}

InitFinancing ==
  /\ Constructed
  /\ names = FinancingNames

NextFinancing ==
  \/ \E name \in names, value \in Values : SetValue(name, value)
  \/ CalculateFinancingCF

SpecFinancing == InitFinancing /\ [][NextFinancing]_vars

\* ------------------------------------------------------------------------
\* Properties
\* ------------------------------------------------------------------------
\* the three component totals have each been returned at least once
AllComponentsReturned == ComponentOps \subseteq DOMAIN returned

\* none of the three component methods has been called yet
NoComponentCalled ==
  /\ DOMAIN returned \cap ComponentOps = {}
  /\ DOMAIN data \cap {s_operation_cf, s_investing_cf, s_financing_cf} = {}

\* C1 (as claimed): once calculate_operational_cf, calculate_investing_cf
\* and calculate_financing_cf have each been called, calculate_cash returns
\* the sum of the three values they most recently returned.
C1_CashIsSumOfComponents ==
  (lastCall.op = "calculate_cash" /\ AllComponentsReturned)
    => /\ lastCall.err = "none"
       /\ lastCall.ret = returned["calculate_operational_cf"]
                           + returned["calculate_investing_cf"]
                           + returned["calculate_financing_cf"]

\* C2: for a name that is no spelling of a registered indicator, set_value
\* raises the unknown-indicator error and leaves the store as it was, and
\* get_value raises nothing, returns 0 and leaves the store as it was.
C2_UnknownNameAsymmetry ==
  [][ /\ (lastCall'.op = "set_value" /\ Unknown(lastCall'.name))
           => (lastCall'.err = "ValueError" /\ data' = data)
      /\ (lastCall'.op = "get_value" /\ Unknown(lastCall'.name))
           => (lastCall'.err = "none" /\ lastCall'.ret = 0 /\ data' = data)
    ]_vars

\* C2 witness: set_value has just been refused for an unknown name while
\* the store holds a raw value and a derived total.
C2_Witness ==
  /\ lastCall.op = "set_value"
  /\ Unknown(lastCall.name)
  /\ lastCall.err = "ValueError"
  /\ s_net_income \in DOMAIN data
  /\ s_operation_cf \in DOMAIN data

\* a and b are both accepted names of one registered indicator
SameIndicator(a, b) ==
  \E i \in Indicators : a \in AcceptedNamesOf[i] /\ b \in AcceptedNamesOf[i]

\* C3: set_value through any accepted name of an indicator succeeds, and a
\* get_value that follows it through any accepted name of the same
\* indicator returns the value just written, whatever was stored before.
C3_RoundTrip ==
  [][ /\ (lastCall'.op = "set_value"
            /\ \E i \in Indicators : lastCall'.name \in AcceptedNamesOf[i])
           => lastCall'.err = "none"
      /\ (lastCall.op = "set_value" /\ lastCall'.op = "get_value"
            /\ SameIndicator(lastCall.name, lastCall'.name))
           => (lastCall'.err = "none" /\ lastCall'.ret = lastCall.value)
    ]_vars

\* C3 witness: a stored value has been read back through the Cyrillic
\* display name of an indicator.
C3_Witness ==
  /\ lastCall.op = "get_value"
  /\ lastCall.ret = MaxValue
  /\ \E i \in Indicators : lastCall.name = Catalog[i].display_name

\* C4: resolve_name applied to a spelling (any letter case, surrounding
\* whitespace) of the id, the display name or an alias of a catalog
\* indicator returns the canonical id of that indicator.
C4_SpellingsResolveToOwnId ==
  lastCall.op = "resolve_name"
    => \A i \in Indicators :
         Names(lastCall.name, i) => lastCall.id = Catalog[i].id

\* C4 witness: a display name in upper case with leading whitespace has
\* been resolved.
C4_Witness ==
  /\ lastCall.op = "resolve_name"
  /\ lastCall.name[1] \in Whitespace
  /\ \A k \in 2..Len(lastCall.name) :
        lastCall.name[k] \in 1040..1071 \/ lastCall.name[k] = 32
  /\ lastCall.id \in DOMAIN registry

\* C8: every key of the value store is a canonical id of the registry or
\* one of the four reserved keys; set_value never stores under the
\* spelling it was given unless that spelling is the canonical id.
C8_KeysAreCanonicalOrReserved ==
  \A k \in DOMAIN data : k \in DOMAIN registry \/ k \in ReservedKeys

\* C8 witness: a value was stored through a spelling that is not a
\* canonical id, and the store holds derived totals as well.
C8_Witness ==
  /\ lastCall.op = "set_value"
  /\ lastCall.err = "none"
  /\ lastCall.name \notin DOMAIN registry
  /\ s_net_income \in DOMAIN data
  /\ s_Cash \in DOMAIN data
  /\ s_cash \in DOMAIN data

\* C9: calculate_cash called before any of the three component methods
\* raises nothing and returns 0, whatever raw values the store holds.
C9_CashBeforeComponentsIsZero ==
  (lastCall.op = "calculate_cash" /\ NoComponentCalled)
    => (lastCall.err = "none" /\ lastCall.ret = 0)

\* C9 witness: calculate_cash has returned before any component method
\* was called, while a raw input of a component formula is stored.
C9_Witness ==
  /\ lastCall.op = "calculate_cash"
  /\ NoComponentCalled
  /\ Stored(s_net_income) > 0
  /\ s_cash \in DOMAIN data

\* the reserved key of each calculate method
OwnKey(op) ==
  CASE op = "calculate_operational_cf" -> s_operation_cf
    [] op = "calculate_investing_cf" -> s_investing_cf
    [] op = "calculate_financing_cf" -> s_financing_cf
    [] op = "calculate_cash" -> s_cash

\* C10: a calculate call changes at most the entry under its own reserved
\* key; a successful set_value changes only the entry of the canonical id
\* of the indicator it names, never an entry under a reserved key; no call
\* changes the registry or the alias table.
C10_Frame ==
  [][ /\ registry' = registry
      /\ alias_map' = alias_map
      /\ lastCall'.op \in ComponentOps \cup {"calculate_cash"}
           => \A k \in (DOMAIN data \cup DOMAIN data')
                       \ {OwnKey(lastCall'.op)} : SameEntry(k)
      /\ (lastCall'.op = "set_value" /\ lastCall'.err = "none")
           => \E i \in Indicators :
                /\ Names(lastCall'.name, i)
                /\ \A k \in (DOMAIN data \cup DOMAIN data')
                           \ {Catalog[i].id} : SameEntry(k)
                /\ \A k \in ReservedKeys : SameEntry(k)
    ]_vars

\* C10 witness: a value was stored through the spelling cash while the
\* store held a different total under the reserved key cash.
C10_Witness ==
  /\ lastCall.op = "set_value"
  /\ lastCall.name = s_cash
  /\ s_cash \in DOMAIN data
  /\ s_Cash \in DOMAIN data
  /\ data[s_Cash] # data[s_cash]
  /\ s_operation_cf \in DOMAIN data

\* C5 (as claimed): after values were passed to set_value under the names
\* net_income, depreciation_expense, net_accounts_receivable, inventory,
\* other_current_assets, current_liabilities and
\* gain_loss_on_disposal_of_PPE, calculate_operational_cf returns
\* net_income + depreciation_expense + net_accounts_receivable - inventory
\* - other_current_assets + current_liabilities
\* - gain_loss_on_disposal_of_PPE of those values and stores it under
\* operation_cf.
C5_OperationalFormula ==
  (lastCall.op = "calculate_operational_cf"
     /\ DOMAIN passed = OperationalNames)
    => /\ lastCall.err = "none"
       /\ lastCall.ret =
            passed[s_net_income] + passed[s_depreciation_expense]
              + passed[s_net_accounts_receivable] - passed[s_inventory]
              - passed[s_other_current_assets]
              + passed[s_current_liabilities]
              - passed[s_gain_loss_on_disposal_of_PPE]
       /\ s_operation_cf \in DOMAIN data
       /\ data[s_operation_cf] = lastCall.ret

\* C6 (as claimed): calculate_investing_cf returns
\* -net_property_plant_equipment + gain_loss_on_disposal_of_PPE
\* + depreciation_expense - other_non_current_assets + other_equity of the
\* values last stored for those indicators (0 when never set) and stores it
\* under investing_cf.
C6_InvestingFormula ==
  lastCall.op = "calculate_investing_cf"
    => /\ lastCall.err = "none"
       /\ lastCall.ret =
            (0 - Stored(id_net_property_plant_equipment))
              + Stored(s_gain_loss_on_disposal_of_PPE)
              + Stored(s_depreciation_expence)
              - Stored(s_other_non_current_assets)
              + Stored(s_other_equity)
       /\ s_investing_cf \in DOMAIN data
       /\ data[s_investing_cf] = lastCall.ret

\* C7 (as claimed): calculate_financing_cf returns non_current_liabilities
\* + contributed_capital - dividends of the values last stored for those
\* indicators (0 when never set) and stores it under financing_cf.
C7_FinancingFormula ==
  lastCall.op = "calculate_financing_cf"
    => /\ lastCall.err = "none"
       /\ lastCall.ret =
            Stored(id_non_current_liabilities)
              + Stored(s_contributed_capital)
              - Stored(s_dividends)
       /\ s_financing_cf \in DOMAIN data
       /\ data[s_financing_cf] = lastCall.ret

====
